---- MODULE Spec2Model ----
(***************************************************************************)
(* Channel lifecycle and settlement engine of the provider node:           *)
(* ChannelCache (the channel index over the key-value store) and           *)
(* ProviderNode (the settlement engine calling it and the ledger).         *)
(*                                                                         *)
(* Every store command (hget / hset) is one atomic step, taken when the    *)
(* command is issued: the store serves one connection in issue order.      *)
(* The code between two awaits runs without interruption, so an action is  *)
(* the continuation that runs on one reply up to and including the next    *)
(* command it issues.  Calls run concurrently: each process of Procs is    *)
(* one invocation of a public operation.                                   *)
(*                                                                         *)
(* Capabilities are modelled by their contract: the store keeps one record *)
(* per id and one array per membership list ("open", "closed"), the node   *)
(* holds a cache instance, and a ledger request is answered per endpoint   *)
(* with success or failure.                                                *)
(*                                                                         *)
(* PaymentChannel (the state machine of one channel object) is a second    *)
(* specification, SpecPaymentChannel, over variables of its own: its       *)
(* methods are synchronous, so a call is one step, and the machine's clock *)
(* is what `new Date().getTime() / 1000` reads.                            *)
(*                                                                         *)
(* ChannelManager (the in-memory keeper of one open channel and the closed *)
(* channels per subscriber) is a third specification, SpecChannelManager:  *)
(* its openChannel, updateChannel, closeChannel and groomChannels are      *)
(* synchronous, so a call is one step.  The class never assigns its        *)
(* `channels` map nor an entry of it; which subscribers the map has an     *)
(* entry for is therefore an input, chosen in the initial state.           *)
(***************************************************************************)
EXTENDS Integers, Sequences, FiniteSets, TLC

\* Bounds of the model.
NumProcs == 3
MaxTime == 1
MaxAmount == 2
MaxPeriods == 2
MaxIteration == 2
MaxClosed == 1

\* Configuration handed to the ProviderNode constructor.
NumEndpoints == 2
expiryTolerance == 2

\* A loop over the providers that leaves out the first one.
SecondEndpoint == 1 + 1

\* estimateGas and sendTransaction go through config.chains[chainId].providers
\* with for..of: from the first provider on.
FirstEndpoint == 1

\* PaymentChannel.MIN_TTL = 60 * 10 seconds.
MIN_TTL == 600

Procs == 1..NumProcs
Ids == {"a", "b"}
Amounts == 1..MaxAmount
Endpoints == 1..NumEndpoints
\* config.chains has the single key "0"; its assets array has one element.
ConfigChains == <<"0">>
ConfigAssets == <<"tok">>
ChainInputs == {"0", "5"}
AssetInputs == {"0", "tok"}
Subscriber == "sub"
Receiver == "rcv"

\* enum Status.
OPEN == "open"
CLOSED == "closed"

\* The instants at which the clock is read, in seconds since the epoch: the
\* epoch and the second after it, and the seconds around every whole number
\* of minimum periods.
Instants == {0, 1} \cup {k * MIN_TTL + d : k \in 1..MaxPeriods, d \in 0..2}
\* The ttl handed to the constructor, around the minimum.
TTLInputs == {MIN_TTL - 1, MIN_TTL, MIN_TTL + 1}
Signatures == {"s1", "s2"}

\* Subscribers of the ChannelManager, in the order of Object.keys(this.channels).
SubscriberOrder == <<"sub", "sub2">>
Subscribers == {SubscriberOrder[j] : j \in 1..Len(SubscriberOrder)}
\* config.channels.ttl of the ChannelManager.
ManagerTTL == MIN_TTL
\* The amount handed to ChannelManager.openChannel; 0 stands for none.
ManagerAmounts == 0..1
\* The signature handed to ChannelManager.openChannel and updateChannel.
ManagerSignatures == {"s1"}

VARIABLES
  channels,    \* hash `channels:channel`: id -> stored Channel (NoChannel if absent)
  openList,    \* membership list "open" (a JSON array of ids)
  closedList,  \* membership list "closed"
  isRetired,   \* ProviderNode.isRetired
  now,         \* wall clock, in seconds
  redeemed,    \* ledger: ids for which a claim transaction was accepted
  sent,        \* ledger: functions for which a state-changing transaction was submitted
  pc,          \* per call: position in its handler
  call,        \* per call: operation and arguments
  loc,         \* per call: local variables of the handler
  ret,         \* per call: what the public operation returned or threw
  session,     \* PaymentChannel._session.state of the channel object (NoSession: no object)
  TTL,         \* PaymentChannel.TTL of the channel object
  wallClock,   \* new Date().getTime() / 1000 of the machine the channel object lives on
  outcome,     \* what the last PaymentChannel call returned or threw
  managerChannels,  \* ChannelManager.channels: subscriber -> {open, closed}
  managerRetired,   \* ChannelManager.isRetired
  managerSent,      \* ledger: functions the ChannelManager submitted a transaction for
  managerOutcome    \* what the last ChannelManager call returned or threw

vars == <<channels, openList, closedList, isRetired, now, redeemed, sent, pc, call, loc, ret,
          session, TTL, wallClock, outcome,
          managerChannels, managerRetired, managerSent, managerOutcome>>

\* The variables of the ChannelManager.
managerVars == <<managerChannels, managerRetired, managerSent, managerOutcome>>

\* The variables of the channel object, which the cache and the node never touch.
channelVars == <<session, TTL, wallClock, outcome>>

\* The variables of the cache and the node, which a channel object never touches.
nodeVars == <<channels, openList, closedList, isRetired, now, redeemed, sent, pc, call, loc, ret>>

\* No channel object has been constructed.
NoSession == [iteration |-> 0, amount |-> 0, expiry |-> 0, signature |-> "", status |-> "none"]

\* No PaymentChannel call has been made.
NoOutcome == [op |-> "none", arg |-> 0, error |-> "none", value |-> FALSE]

\* this.channels[subscriber] is undefined.
NoEntry == [present |-> FALSE, open |-> NoSession, closed |-> <<>>]

\* An entry {open: undefined, closed: []}.
EmptyEntry == [present |-> TRUE, open |-> NoSession, closed |-> <<>>]

\* No ChannelManager call has been made.
NoManagerOutcome == [op |-> "none", subscriber |-> "", closeAll |-> FALSE, error |-> "none"]

\* hget answers null for a missing field.
NoChannel ==
  [id |-> "", chainId |-> "", sender |-> "", receiver |-> "", asset |-> "",
   timestamp |-> 0, iteration |-> 0, amount |-> 0, expiry |-> 0, signature |-> <<>>]

NoCall ==
  [op |-> "none", id |-> "", chainId |-> "", asset |-> "", amount |-> 0,
   expiry |-> 0, signature |-> <<>>, ids |-> <<>>, withMinTime |-> 0]

NoLoc ==
  [k |-> 0, channel |-> NoChannel, cached |-> NoChannel, pending |-> FALSE,
   list |-> <<>>, closing |-> <<>>, i |-> 0, ids |-> <<>>, channelList |-> <<>>,
   accepted |-> {}]

\* What a call gave its caller: the operation, whether it returned or threw,
\* the value returned, and `rejected`: the error of a promise the operation
\* started and did not await ("pending" while that work still runs).
NoRet ==
  [op |-> "none", status |-> "none", error |-> "", id |-> "", count |-> 0,
   accepted |-> {}, rejected |-> "none"]

Threw(op, e) == [NoRet EXCEPT !.op = op, !.status = "threw", !.error = e]
Returned(op, id) == [NoRet EXCEPT !.op = op, !.status = "returned", !.id = id]

Range(s) == {s[j] : j \in 1..Len(s)}

\* Array.prototype.findIndex with (value) => value === id; 0 stands for -1.
FindIndex(list, id) ==
  IF \E j \in 1..Len(list) : list[j] = id
    THEN CHOOSE j \in 1..Len(list) : list[j] = id /\ \A h \in 1..(j - 1) : list[h] # id
    ELSE 0

\* Array.prototype.splice(index, 1).
Splice(list, index) ==
  [j \in 1..(Len(list) - 1) |-> IF j < index THEN list[j] ELSE list[j + 1]]

\* `for (const x in array)` enumerates the array's indices as strings "0", "1", ...
IndexStrings(array) == {ToString(j - 1) : j \in 1..Len(array)}

\* What the for..in loops of isChainSupported and isAssetSupported go through.
ChainsEnumerated == IndexStrings(ConfigChains)
AssetsEnumerated == IndexStrings(ConfigAssets)

\* ProviderNode.isChainSupported: for..in over Object.keys(config.chains).
isChainSupported(chainId) == chainId \in ChainsEnumerated

\* ProviderNode.isAssetSupported: for..in over config.chains[chainId].assets.
isAssetSupported(chainId, asset) == asset \in AssetsEnumerated

\* The subscriber's signature on the digest (id, provider, asset, amount, expiry).
Sign(id, asset, amount, expiry) == <<id, asset, amount, expiry>>

\* assertValidExpiry that accepts every expiry.
ExpiryNeverInsufficient(expiry, time) == FALSE

\* ProviderNode.assertValidExpiry: TRUE when it throws.
ExpiryInsufficient(expiry, time) == expiry - time < expiryTolerance

\* assertNotRetired that never throws.
assertNotRetiredSkipped == "none"

\* ProviderNode.assertNotRetired: the error it throws.
assertNotRetired == IF isRetired THEN "Retired" ELSE "none"

\* What the ledger's isSubscriber gives for the subscriber address handed to
\* openChannel; "undefined" when no endpoint answers (sendTransaction line 427).
MemberAnswers == {"true", "false", "undefined"}

\* ProviderNode.checkIfSubscriber is async: what the caller holds is a promise
\* of the answer, an object.
checkIfSubscriber(answer) == [type |-> "object", value |-> answer]

\* JavaScript's `!value` for a boolean, undefined or an object.
Not(value) ==
  \/ value.type = "undefined"
  \/ value.type = "boolean" /\ value.value = "false"

\* ChannelCache.updateChannelList, lines 273..295: the loop over ids on the
\* array read at line 267.  Gives the array to commit and the `success` array.
\* An updateChannelList that adds the ids without looking for them in the list.
ApplyIdsUnchecked(list, ids, remove, success) ==
  [list |-> IF remove THEN SelectSeq(list, LAMBDA x : ~(x \in Range(ids))) ELSE list \o ids,
   success |-> success]

RECURSIVE ApplyIds(_, _, _, _)
ApplyIds(list, ids, remove, success) ==
  IF ids = <<>> THEN [list |-> list, success |-> success]
  ELSE LET id == Head(ids)
           targetChannelIndex == FindIndex(list, id)
       IN IF remove
            THEN IF targetChannelIndex = 0
                   THEN ApplyIds(list, Tail(ids), remove, Append(success, FALSE))
                   ELSE ApplyIds(Splice(list, targetChannelIndex), Tail(ids), remove, success)
            ELSE IF targetChannelIndex # 0
                   THEN ApplyIds(list, Tail(ids), remove, Append(success, FALSE))
                   ELSE ApplyIds(Append(list, id), Tail(ids), remove, success)

\* The channel insertChannel records (lines 163..178).
NewChannel(c, time) ==
  [id |-> c.id, chainId |-> c.chainId, sender |-> Subscriber, receiver |-> Receiver,
   asset |-> c.asset, timestamp |-> time, iteration |-> 1, amount |-> c.amount,
   expiry |-> c.expiry, signature |-> c.signature]

\* An updateChannel that rebuilds the record and loses the receiver.
UpdatedChannelRebuilt(channel, c, time) ==
  [channel EXCEPT !.receiver = "", !.timestamp = time, !.iteration = channel.iteration + 1,
                  !.amount = c.amount, !.expiry = c.expiry, !.signature = c.signature]

\* The channel updateChannel records (lines 224..236).
UpdatedChannel(channel, c, time) ==
  [channel EXCEPT !.timestamp = time, !.iteration = channel.iteration + 1,
                  !.amount = c.amount, !.expiry = c.expiry, !.signature = c.signature]

\* The cache, the node and the channel object before any call.
InitNode ==
  /\ channels = [id \in Ids |-> NoChannel]
  /\ openList = <<>>
  /\ closedList = <<>>
  /\ isRetired = FALSE
  /\ now = 0
  /\ redeemed = {}
  /\ sent = {}
  /\ pc = [p \in Procs |-> "idle"]
  /\ call = [p \in Procs |-> NoCall]
  /\ loc = [p \in Procs |-> NoLoc]
  /\ ret = [p \in Procs |-> NoRet]
  /\ session = NoSession
  /\ TTL = 0
  /\ wallClock = 0
  /\ outcome = NoOutcome

\* The ChannelManager after its constructor, its map holding `entries`.
InitManager(entries) ==
  /\ managerChannels = entries
  /\ managerRetired = FALSE
  /\ managerSent = {}
  /\ managerOutcome = NoManagerOutcome

Init == InitNode /\ InitManager([s \in Subscribers |-> NoEntry])

\* A call slot is taken in order, so that runs differing only in the names of
\* the slots are explored once.
CanStart(p) == pc[p] = "idle" /\ \A q \in Procs : q < p => pc[q] # "idle"

\* The call is over: its arguments and locals are dropped.
Finish(p, r) ==
  /\ pc' = [pc EXCEPT ![p] = "done"]
  /\ ret' = [ret EXCEPT ![p] = r]
  /\ call' = [call EXCEPT ![p] = NoCall]
  /\ loc' = [loc EXCEPT ![p] = NoLoc]

\* The clock advances.
Tick ==
  /\ now < MaxTime
  /\ now' = now + 1
  /\ UNCHANGED <<channelVars, managerVars, channels, openList, closedList, isRetired, redeemed, sent, pc, call, loc, ret>>

(***************************************************************************)
(* ProviderNode.openChannel                                                *)
(***************************************************************************)

\* Lines 107..125: the synchronous checks of openChannel in their order; the
\* error of the first that throws.  checkIfSubscriber hands back a promise.
openChannelChecks(chainId, member, asset, expiry) ==
  IF assertNotRetired # "none" THEN assertNotRetired
  ELSE IF ~isChainSupported(chainId) THEN "UnsupportedChain"
  ELSE IF ~isAssetSupported(chainId, asset) THEN "UnsupportedAsset"
  ELSE IF ExpiryInsufficient(expiry, now) THEN "InsufficientExpiry"
  ELSE IF Not(checkIfSubscriber(member)) THEN "NotSubscriber"
  ELSE "none"

\* Lines 107..128: the checks, then the first fee estimation.  A call that
\* gets to line 123 runs checkIfSubscriber up to its first await, which submits
\* the isSubscriber call as a transaction (sendTransaction with read = false,
\* line 417); `member` is what the ledger makes of it.
OpenChannelWith(p, id, chainId, member, asset, amount, expiry) ==
  LET error == openChannelChecks(chainId, member, asset, expiry)
  IN /\ sent' = IF error \in {"NotSubscriber", "none"}
                   THEN sent \cup {"isSubscriber"}
                   ELSE sent
     /\ IF error # "none"
          THEN Finish(p, Threw("openChannel", error))
          ELSE /\ call' = [call EXCEPT ![p] =
                             [NoCall EXCEPT !.op = "openChannel", !.id = id,
                                            !.chainId = chainId, !.asset = asset,
                                            !.amount = amount, !.expiry = expiry,
                                            !.signature = Sign(id, asset, amount, expiry)]]
               /\ pc' = [pc EXCEPT ![p] = "estimateGas"]
               /\ loc' = [loc EXCEPT ![p].k = FirstEndpoint]
               /\ UNCHANGED ret
     /\ UNCHANGED <<channelVars, managerVars, channels, openList, closedList, isRetired, now, redeemed>>

\* The expiries a caller tries: one second short of the tolerance, and the tolerance.
ExpiryInputs == {now + expiryTolerance - 1, now + expiryTolerance}

OpenChannel(p) ==
  /\ CanStart(p)
  /\ \E id \in Ids, chainId \in ChainInputs, member \in MemberAnswers,
        asset \in AssetInputs, amount \in Amounts, expiry \in ExpiryInputs :
       OpenChannelWith(p, id, chainId, member, asset, amount, expiry)

\* ProviderNode.estimateGas, lines 373..383: the provider failed, the next is tried.
EstimateGasNext(p) ==
  /\ pc[p] = "estimateGas"
  /\ loc[p].k < NumEndpoints
  /\ loc' = [loc EXCEPT ![p].k = loc[p].k + 1]
  /\ UNCHANGED <<channelVars, managerVars, channels, openList, closedList, isRetired, now, redeemed, sent, pc, call, ret>>

\* assertValidSignature run after the cache was written: the record is stored
\* and then the failed estimation throws.
InvalidSignatureAfterWrite(p) ==
  /\ pc[p] = "estimateGas"
  /\ loc[p].k = NumEndpoints
  /\ channels' = [channels EXCEPT ![call[p].id] =
                    IF call[p].op = "openChannel"
                      THEN NewChannel(call[p], now)
                      ELSE UpdatedChannel(channels[call[p].id], call[p], now)]
  /\ Finish(p, Threw(call[p].op, "InvalidSignature"))
  /\ UNCHANGED <<channelVars, managerVars, openList, closedList, isRetired, now, redeemed, sent>>

\* estimateGas that gives up at the first provider that fails.
InvalidSignatureEarly(p) ==
  /\ pc[p] = "estimateGas"
  /\ Finish(p, Threw(call[p].op, "InvalidSignature"))
  /\ UNCHANGED <<channelVars, managerVars, channels, openList, closedList, isRetired, now, redeemed, sent>>

\* estimateGas returned false (every provider failed): assertValidSignature throws.
InvalidSignature(p) ==
  /\ pc[p] = "estimateGas"
  /\ loc[p].k = NumEndpoints
  /\ Finish(p, Threw(call[p].op, "InvalidSignature"))
  /\ UNCHANGED <<channelVars, managerVars, channels, openList, closedList, isRetired, now, redeemed, sent>>

\* Lines 137..152: the estimation succeeded; insertChannel is called and not
\* awaited: it issues its getChannel (line 158) and openChannel returns the id.
OpenChannelInsert(p) ==
  /\ pc[p] = "estimateGas"
  /\ call[p].op = "openChannel"
  /\ loc' = [loc EXCEPT ![p].cached = channels[call[p].id]]
  /\ pc' = [pc EXCEPT ![p] = "insert_record"]
  /\ ret' = [ret EXCEPT ![p] =
               [Returned("openChannel", call[p].id) EXCEPT !.rejected = "pending"]]
  /\ UNCHANGED <<channelVars, managerVars, channels, openList, closedList, isRetired, now, redeemed, sent, call>>

(***************************************************************************)
(* ChannelCache.insertChannel                                              *)
(***************************************************************************)

\* insertChannel without the check of lines 159..161: the record is written
\* over whatever is stored.
InsertRecordOverwrites(p) ==
  /\ pc[p] = "insert_record"
  /\ channels' = [channels EXCEPT ![call[p].id] = NewChannel(call[p], now)]
  /\ pc' = [pc EXCEPT ![p] = "insert_list_get"]
  /\ UNCHANGED <<channelVars, managerVars, openList, closedList, isRetired, now, redeemed, sent, call, loc, ret>>

\* Lines 159..185: throw if the id has a record, else record the new channel.
InsertRecord(p) ==
  /\ pc[p] = "insert_record"
  /\ IF loc[p].cached # NoChannel
       THEN /\ Finish(p, [ret[p] EXCEPT !.rejected = "AlreadyExists"])
            /\ UNCHANGED channels
       ELSE /\ channels' = [channels EXCEPT ![call[p].id] = NewChannel(call[p], now)]
            /\ pc' = [pc EXCEPT ![p] = "insert_list_get"]
            /\ UNCHANGED <<call, loc, ret>>
  /\ UNCHANGED <<channelVars, managerVars, openList, closedList, isRetired, now, redeemed, sent>>

\* Line 187 -> updateChannelList("open", [id], false), line 267: read the list.
InsertListGet(p) ==
  /\ pc[p] = "insert_list_get"
  /\ loc' = [loc EXCEPT ![p].channelList = openList]
  /\ pc' = [pc EXCEPT ![p] = "insert_list_set"]
  /\ UNCHANGED <<channelVars, managerVars, channels, openList, closedList, isRetired, now, redeemed, sent, call, ret>>

\* updateChannelList lines 273..301: add the id and commit the array, which
\* replaces the "open" list that line 267 read.  insertChannel returns.
InsertListSet(p) ==
  /\ pc[p] = "insert_list_set"
  /\ openList' = ApplyIds(loc[p].channelList, <<call[p].id>>, FALSE, <<>>).list
  /\ Finish(p, [ret[p] EXCEPT !.rejected = "none"])
  /\ UNCHANGED <<channelVars, managerVars, channels, closedList, isRetired, now, redeemed, sent>>

(***************************************************************************)
(* ProviderNode.updateChannel and ChannelCache.updateChannel               *)
(***************************************************************************)

\* Lines 176..193: the checks, getChannel (line 183) and, on its reply, the
\* first fee estimation; reading channel.chainId of no channel throws.
UpdateChannel(p) ==
  /\ CanStart(p)
  /\ \E id \in Ids, amount \in Amounts, expiry \in ExpiryInputs :
       IF assertNotRetired # "none"
         THEN Finish(p, Threw("updateChannel", assertNotRetired))
       ELSE IF ExpiryInsufficient(expiry, now)
         THEN Finish(p, Threw("updateChannel", "InsufficientExpiry"))
       ELSE IF channels[id] = NoChannel
         THEN Finish(p, Threw("updateChannel", "TypeError"))
       ELSE /\ call' = [call EXCEPT ![p] =
                          [NoCall EXCEPT !.op = "updateChannel", !.id = id,
                                         !.amount = amount, !.expiry = expiry,
                                         !.signature =
                                           Sign(id, channels[id].asset, amount, expiry)]]
            /\ pc' = [pc EXCEPT ![p] = "estimateGas"]
            /\ loc' = [loc EXCEPT ![p].k = FirstEndpoint, ![p].channel = channels[id]]
            /\ UNCHANGED ret
  /\ UNCHANGED <<channelVars, managerVars, channels, openList, closedList, isRetired, now, redeemed, sent>>

\* Line 196 -> ChannelCache.updateChannel line 216: the estimation succeeded,
\* the cache reads the channel again.
UpdateChannelGet(p) ==
  /\ pc[p] = "estimateGas"
  /\ call[p].op = "updateChannel"
  /\ loc' = [loc EXCEPT ![p].cached = channels[call[p].id]]
  /\ pc' = [pc EXCEPT ![p] = "update_record"]
  /\ UNCHANGED <<channelVars, managerVars, channels, openList, closedList, isRetired, now, redeemed, sent, call, ret>>

\* ChannelCache.assertChannelIsOpen, lines 250..259: the error it rejects with.
assertChannelIsOpen(list, id) == IF FindIndex(list, id) = 0 THEN "NotOpen" ELSE "none"

\* ChannelCache.updateChannel lines 217..247.  assertChannelIsOpen (line 222)
\* is not awaited: its rejection reaches nobody and the record is written.
UpdateRecord(p) ==
  /\ pc[p] = "update_record"
  /\ IF loc[p].cached = NoChannel
       THEN /\ Finish(p, Threw("updateChannel", "NotFound"))
            /\ UNCHANGED channels
       ELSE /\ channels' = [channels EXCEPT
                              ![call[p].id] = UpdatedChannel(loc[p].cached, call[p], now)]
            /\ Finish(p, [Returned("updateChannel", call[p].id) EXCEPT
                            !.rejected = assertChannelIsOpen(openList, call[p].id)])
  /\ UNCHANGED <<channelVars, managerVars, openList, closedList, isRetired, now, redeemed, sent>>

(***************************************************************************)
(* ChannelCache.closeChannels                                              *)
(***************************************************************************)

\* Sequences of one or two ids, a repeated id included.
CloseInputs == {<<x>> : x \in Ids} \cup {<<x, y>> : x \in Ids, y \in Ids}

\* Line 113 -> updateChannelList("open", ids, true), line 267: read the list.
CloseChannels(p) ==
  /\ CanStart(p)
  /\ \E ids \in CloseInputs :
       /\ call' = [call EXCEPT ![p] = [NoCall EXCEPT !.op = "closeChannels", !.ids = ids]]
       /\ loc' = [loc EXCEPT ![p].ids = ids, ![p].channelList = openList]
  /\ pc' = [pc EXCEPT ![p] = "close_open_set"]
  /\ UNCHANGED <<channelVars, managerVars, channels, openList, closedList, isRetired, now, redeemed, sent, ret>>

\* updateChannelList lines 273..301: remove the ids and commit the array, which
\* replaces the "open" list that line 267 read.
CloseOpenSet(p) ==
  /\ pc[p] = "close_open_set"
  /\ openList' = ApplyIds(loc[p].channelList, loc[p].ids, TRUE, <<>>).list
  /\ pc' = [pc EXCEPT ![p] = "close_closed_get"]
  /\ UNCHANGED <<channelVars, managerVars, channels, closedList, isRetired, now, redeemed, sent, call, loc, ret>>

\* Lines 114..119: `!res` is false of every array, so the call goes on to
\* updateChannelList("closed", ids, false), line 267: read the list.
CloseClosedGet(p) ==
  /\ pc[p] = "close_closed_get"
  /\ loc' = [loc EXCEPT ![p].channelList = closedList]
  /\ pc' = [pc EXCEPT ![p] = "close_closed_set"]
  /\ UNCHANGED <<channelVars, managerVars, channels, openList, closedList, isRetired, now, redeemed, sent, call, ret>>

\* updateChannelList lines 273..301 and closeChannels lines 120..123: add the
\* ids, commit the "closed" list, return true.  A sweep did not await the call.
CloseClosedSet(p) ==
  /\ pc[p] = "close_closed_set"
  /\ closedList' = ApplyIds(loc[p].channelList, loc[p].ids, FALSE, <<>>).list
  /\ Finish(p, IF call[p].op = "closeChannels"
                 THEN [NoRet EXCEPT !.op = "closeChannels", !.status = "returned"]
                 ELSE [ret[p] EXCEPT !.rejected = "none"])
  /\ UNCHANGED <<channelVars, managerVars, channels, openList, isRetired, now, redeemed, sent>>

(***************************************************************************)
(* ProviderNode.redeemChannels and ProviderNode.closeChannels              *)
(***************************************************************************)

\* Line 212: getOpenChannels.
RedeemChannels(p) ==
  /\ CanStart(p)
  /\ \E withMinTime \in 0..(MaxTime - 1) :
       call' = [call EXCEPT ![p] =
                  [NoCall EXCEPT !.op = "redeemChannels", !.withMinTime = withMinTime]]
  /\ loc' = [loc EXCEPT ![p].list = openList]
  /\ pc' = [pc EXCEPT ![p] = "redeem_loop"]
  /\ UNCHANGED <<channelVars, managerVars, channels, openList, closedList, isRetired, now, redeemed, sent, ret>>

\* Lines 217..222 on the channel the last getChannel answered with.
Selected(p) ==
  IF loc[p].pending /\ now - loc[p].channel.timestamp > call[p].withMinTime
    THEN Append(loc[p].closing, loc[p].channel)
    ELSE loc[p].closing

\* Reading channel.state of no channel throws.
RedeemThrows(p) == loc[p].pending /\ loc[p].channel = NoChannel

\* Lines 214..223: the reply to getChannel is examined and the next id fetched.
RedeemNext(p) ==
  /\ pc[p] = "redeem_loop"
  /\ loc[p].list # <<>>
  /\ IF RedeemThrows(p)
       THEN Finish(p, Threw("redeemChannels", "TypeError"))
       ELSE /\ loc' = [loc EXCEPT ![p].closing = Selected(p),
                                  ![p].channel = channels[Head(loc[p].list)],
                                  ![p].pending = TRUE,
                                  ![p].list = Tail(loc[p].list)]
            /\ UNCHANGED <<pc, call, ret>>
  /\ UNCHANGED <<channelVars, managerVars, channels, openList, closedList, isRetired, now, redeemed, sent>>

\* ProviderNode.closeChannels lines 257..260 and redeemChannels line 225: the
\* cache's closeChannels is called with every channel handed in and is not
\* awaited; it reads the "open" list (line 267) and redeemChannels returns
\* closingChannels.length.
CloseAll(p, closing, accepted) ==
  /\ loc' = [loc EXCEPT ![p].closing = closing,
                        ![p].accepted = accepted,
                        ![p].ids = [j \in 1..Len(closing) |-> closing[j].id],
                        ![p].channelList = openList]
  /\ pc' = [pc EXCEPT ![p] = "close_open_set"]
  /\ ret' = [ret EXCEPT ![p] =
               [NoRet EXCEPT !.op = "redeemChannels", !.status = "returned",
                             !.count = Len(closing), !.accepted = accepted,
                             !.rejected = "pending"]]
  /\ UNCHANGED call

\* Lines 223..224: the loop is over; the first claim is sent, or with nothing
\* selected closeChannels goes straight to the cache.
RedeemSelected(p) ==
  /\ pc[p] = "redeem_loop"
  /\ loc[p].list = <<>>
  /\ IF RedeemThrows(p)
       THEN Finish(p, Threw("redeemChannels", "TypeError")) /\ UNCHANGED sent
       ELSE IF Selected(p) = <<>>
         THEN CloseAll(p, <<>>, {}) /\ UNCHANGED sent
         ELSE /\ loc' = [loc EXCEPT ![p].closing = Selected(p), ![p].pending = FALSE,
                                    ![p].i = 1, ![p].k = FirstEndpoint]
              /\ pc' = [pc EXCEPT ![p] = "claim"]
              /\ sent' = sent \cup {"claim"}
              /\ UNCHANGED <<call, ret>>
  /\ UNCHANGED <<channelVars, managerVars, channels, openList, closedList, isRetired, now, redeemed>>

\* ProviderNode.sendTransaction, lines 406..423: the provider failed, the next is tried.
ClaimNext(p) ==
  /\ pc[p] = "claim"
  /\ loc[p].k < NumEndpoints
  /\ loc' = [loc EXCEPT ![p].k = loc[p].k + 1]
  /\ UNCHANGED <<channelVars, managerVars, channels, openList, closedList, isRetired, now, redeemed, sent, pc, call, ret>>

\* closeChannels lines 237..256 after the claim of channel i came back with
\* `accepted`: the next channel's claim is sent, or the cache is called.
AfterClaim(p, accepted) ==
  IF loc[p].i < Len(loc[p].closing)
    THEN /\ loc' = [loc EXCEPT ![p].i = loc[p].i + 1, ![p].k = FirstEndpoint,
                               ![p].accepted = accepted]
         /\ UNCHANGED <<pc, call, ret>>
    ELSE CloseAll(p, loc[p].closing, accepted)

\* sendTransaction returned the receipt: the ledger accepted the claim.
ClaimAccepted(p) ==
  /\ pc[p] = "claim"
  /\ redeemed' = redeemed \cup {loc[p].closing[loc[p].i].id}
  /\ AfterClaim(p, loc[p].accepted \cup {loc[p].closing[loc[p].i].id})
  /\ UNCHANGED <<channelVars, managerVars, channels, openList, closedList, isRetired, now, sent>>

\* sendTransaction returned undefined (every provider failed): lines 252..255
\* log and `continue`.
ClaimFailed(p) ==
  /\ pc[p] = "claim"
  /\ loc[p].k = NumEndpoints
  /\ AfterClaim(p, loc[p].accepted)
  /\ UNCHANGED <<channelVars, managerVars, channels, openList, closedList, isRetired, now, redeemed, sent>>

(***************************************************************************)
(* ProviderNode.retire                                                     *)
(***************************************************************************)

Retire(p) ==
  /\ CanStart(p)
  /\ isRetired' = TRUE
  /\ Finish(p, [NoRet EXCEPT !.op = "retire", !.status = "returned"])
  /\ UNCHANGED <<channelVars, managerVars, channels, openList, closedList, now, redeemed, sent>>

Next ==
  \/ Tick
  \/ \E p \in Procs :
       \/ OpenChannel(p)
       \/ EstimateGasNext(p)
       \/ InvalidSignature(p)
       \/ OpenChannelInsert(p)
       \/ InsertRecord(p)
       \/ InsertListGet(p)
       \/ InsertListSet(p)
       \/ UpdateChannel(p)
       \/ UpdateChannelGet(p)
       \/ UpdateRecord(p)
       \/ CloseChannels(p)
       \/ CloseOpenSet(p)
       \/ CloseClosedGet(p)
       \/ CloseClosedSet(p)
       \/ RedeemChannels(p)
       \/ RedeemNext(p)
       \/ RedeemSelected(p)
       \/ ClaimNext(p)
       \/ ClaimAccepted(p)
       \/ ClaimFailed(p)
       \/ Retire(p)

Spec == Init /\ [][Next]_vars

(***************************************************************************)
(* PaymentChannel                                                          *)
(***************************************************************************)

\* constructor lines 57..62: the state a new object starts with.
InitialState ==
  [iteration |-> 0, amount |-> 0, expiry |-> 0, signature |-> "undefined", status |-> OPEN]

\* A checkExpiry that never finds the channel expired.
checkExpiryNever(s, t) == FALSE

\* checkExpiry lines 111..116, the clock reading t.
checkExpiry(s, t) == t > s.expiry

\* isOpen lines 88..94.
isOpen(s, t) == IF s.status = OPEN THEN ~checkExpiry(s, t) ELSE FALSE

\* An assertOpen that lets every call through.
assertOpenSkipped(s, t) == "none"

\* assertOpen lines 104..109: the error thrown, "none" if none.
assertOpen(s, t) == IF ~isOpen(s, t) THEN "Session is closed." ELSE "none"

\* pushExpiry lines 118..122: the error thrown and the state left behind.
pushExpiry(s, ttl, t) ==
  IF assertOpen(s, t) # "none"
    THEN [error |-> assertOpen(s, t), state |-> s]
    ELSE [error |-> "none", state |-> [s EXCEPT !.expiry = t + ttl]]

\* An update that writes and pushes the expiry without asking whether the
\* channel is open.
updateUnchecked(s, ttl, amount, signature, t1, t2) ==
  [error |-> "none",
   state |-> [s EXCEPT !.iteration = @ + 1, !.amount = amount, !.signature = signature,
                       !.expiry = t2 + ttl]]

\* update lines 76..82; assertOpen of line 77 reads the clock at t1, pushExpiry
\* of line 81 at t2.
update(s, ttl, amount, signature, t1, t2) ==
  IF assertOpen(s, t1) # "none"
    THEN [error |-> assertOpen(s, t1), state |-> s]
    ELSE pushExpiry([s EXCEPT !.iteration = @ + 1, !.amount = amount,
                              !.signature = signature], ttl, t2)

\* A close that opens a closed channel again.
closeReopens(s) == [s EXCEPT !.status = IF @ = CLOSED THEN OPEN ELSE CLOSED]

\* close lines 84..86.
close(s) == [s EXCEPT !.status = CLOSED]

\* A check that rejects the minimum itself.
TTLAtMostMinimum(ttl) == ttl <= MIN_TTL

\* constructor line 66.
TTLBelowMinimum(ttl) == ttl < MIN_TTL

\* constructor lines 67..70.
TTLError == "Given expiry period is less than minimum expiry period."

\* The next instant after t at which the clock is read (t if there is none).
Later(t) ==
  IF \E u \in Instants : u > t
    THEN CHOOSE u \in Instants : u > t /\ \A v \in Instants : v > t => u <= v
    ELSE t

\* The clock of the machine moves on.
ClockTick ==
  /\ \E t \in Instants : t > wallClock /\ wallClock' = t
  /\ UNCHANGED <<nodeVars, managerVars, session, TTL, outcome>>

\* new PaymentChannel(..., ttl), lines 41..74.  When the constructor throws
\* nobody holds the object.
New(ttl) ==
  /\ session = NoSession
  /\ IF TTLBelowMinimum(ttl)
       THEN /\ outcome' = [NoOutcome EXCEPT !.op = "new", !.arg = ttl, !.error = TTLError]
            /\ UNCHANGED <<session, TTL>>
       ELSE LET r == pushExpiry(InitialState, ttl, wallClock)
            IN /\ outcome' = [NoOutcome EXCEPT !.op = "new", !.arg = ttl, !.error = r.error]
               /\ IF r.error = "none"
                    THEN session' = r.state /\ TTL' = ttl
                    ELSE UNCHANGED <<session, TTL>>
  /\ UNCHANGED <<nodeVars, managerVars, wallClock>>

\* channel.update(amount, signature); the clock may have moved on between the
\* two times the call reads it.
Update(amount, signature) ==
  /\ session # NoSession
  /\ session.iteration < MaxIteration
  /\ \E t2 \in {wallClock, Later(wallClock)} :
       /\ assertOpen(session, wallClock) # "none" => t2 = wallClock
       /\ wallClock' = t2
       /\ LET r == update(session, TTL, amount, signature, wallClock, t2)
          IN /\ session' = r.state
             /\ outcome' = [NoOutcome EXCEPT !.op = "update", !.arg = amount,
                                             !.error = r.error]
  /\ UNCHANGED <<nodeVars, managerVars, TTL>>

\* channel.close().
Close ==
  /\ session # NoSession
  /\ session' = close(session)
  /\ outcome' = [NoOutcome EXCEPT !.op = "close"]
  /\ UNCHANGED <<nodeVars, managerVars, TTL, wallClock>>

\* channel.isOpen().
IsOpen ==
  /\ session # NoSession
  /\ outcome' = [NoOutcome EXCEPT !.op = "isOpen", !.value = isOpen(session, wallClock)]
  /\ UNCHANGED <<nodeVars, managerVars, session, TTL, wallClock>>

NextPaymentChannel ==
  \/ ClockTick
  \/ \E ttl \in TTLInputs : New(ttl)
  \/ \E amount \in Amounts, signature \in Signatures : Update(amount, signature)
  \/ Close
  \/ IsOpen

SpecPaymentChannel == Init /\ [][NextPaymentChannel]_vars

(***************************************************************************)
(* ChannelManager                                                          *)
(***************************************************************************)

\* new PaymentChannel(..., ttl) at clock reading t: the error thrown and the
\* state of the object handed back (NoSession when it throws).
construct(ttl, t) ==
  IF TTLBelowMinimum(ttl) THEN [error |-> TTLError, state |-> NoSession]
  ELSE LET r == pushExpiry(InitialState, ttl, t)
       IN IF r.error # "none" THEN [error |-> r.error, state |-> NoSession] ELSE r

\* Object.keys(this.channels).
Keys(chans) == SelectSeq(SubscriberOrder, LAMBDA s : chans[s].present)

\* ChannelManager.updateChannel, part_003 lines 165..183.
managerUpdateChannel(chans, retired, subscriber, amount, signature, t) ==
  IF retired THEN [error |-> "Retired", channels |-> chans]
  ELSE IF ~chans[subscriber].present THEN [error |-> "TypeError", channels |-> chans]
  ELSE IF chans[subscriber].open = NoSession
    THEN [error |-> "NoOpenChannel", channels |-> chans]
  ELSE IF amount < chans[subscriber].open.amount
    THEN [error |-> "AmountDecrease", channels |-> chans]
  ELSE LET r == update(chans[subscriber].open, ManagerTTL, amount, signature, t, t)
       IN [error |-> r.error, channels |-> [chans EXCEPT ![subscriber].open = r.state]]

\* The checks of ChannelManager.openChannel before the channel is built,
\* lines 119..128: the error of the first that throws.
managerOpenChecks(retired, chainId, asset) ==
  IF retired THEN "Retired"
  ELSE IF ~isChainSupported(chainId) THEN "UnsupportedChain"
  ELSE IF ~isAssetSupported(chainId, asset) THEN "UnsupportedAsset"
  ELSE "none"

\* ChannelManager.openChannel, lines 111..164.  `sent` tells whether the
\* isSubscriber transaction of line 133 was submitted.
managerOpenChannel(chans, retired, chainId, subscriber, asset, amount, signature, t) ==
  IF managerOpenChecks(retired, chainId, asset) # "none"
    THEN [error |-> managerOpenChecks(retired, chainId, asset), channels |-> chans,
          sent |-> FALSE]
  ELSE LET c == construct(ManagerTTL, t)
       IN IF c.error # "none" THEN [error |-> c.error, channels |-> chans, sent |-> TRUE]
          ELSE IF ~chans[subscriber].present
            THEN [error |-> "TypeError", channels |-> chans, sent |-> TRUE]
          ELSE LET e == chans[subscriber]
                   replaced == [chans EXCEPT
                                  ![subscriber].closed =
                                     IF e.open # NoSession THEN Append(e.closed, e.open)
                                     ELSE e.closed,
                                  ![subscriber].open = c.state]
               IN IF amount # 0
                    THEN LET u == managerUpdateChannel(replaced, retired, subscriber,
                                                       amount, signature, t)
                         IN [error |-> u.error, channels |-> u.channels, sent |-> TRUE]
                    ELSE [error |-> "none", channels |-> replaced, sent |-> TRUE]

\* ChannelManager.closeChannel, lines 185..196.
closeChannel(chans, subscriber, t) ==
  IF ~chans[subscriber].present THEN [error |-> "TypeError", channels |-> chans]
  ELSE IF chans[subscriber].open = NoSession
    THEN [error |-> "NoOpenChannel", channels |-> chans]
  ELSE IF isOpen(chans[subscriber].open, t)
    THEN [error |-> "none",
          channels |-> [chans EXCEPT
                          ![subscriber].closed = Append(@, close(chans[subscriber].open)),
                          ![subscriber].open = NoSession]]
  ELSE [error |-> "none", channels |-> chans]

\* ChannelManager.groomChannels, lines 198..206: the loop over the keys.
RECURSIVE groomChannels(_, _, _, _)
groomChannels(keys, chans, closeAll, t) ==
  IF keys = <<>> THEN [error |-> "none", channels |-> chans]
  ELSE LET subscriber == Head(keys)
           open == chans[subscriber].open
       IN IF closeAll \/ (open # NoSession /\ ~isOpen(open, t))
            THEN LET r == closeChannel(chans, subscriber, t)
                 IN IF r.error # "none" THEN r
                    ELSE groomChannels(Tail(keys), r.channels, closeAll, t)
            ELSE groomChannels(Tail(keys), chans, closeAll, t)

\* The map is read with an entry for any set of subscribers.
InitChannelManager ==
  /\ InitNode
  /\ \E entries \in [Subscribers -> {NoEntry, EmptyEntry}] : InitManager(entries)

\* manager.openChannel(chainId, subscriber, nonce, asset, amount, signature).
ManagerOpenChannelWith(chainId, subscriber, asset, amount, signature) ==
  /\ Len(managerChannels[subscriber].closed) < MaxClosed
  /\ LET r == managerOpenChannel(managerChannels, managerRetired, chainId, subscriber,
                                 asset, amount, signature, wallClock)
     IN /\ managerChannels' = r.channels
        /\ managerSent' = IF r.sent THEN managerSent \cup {"isSubscriber"} ELSE managerSent
        /\ managerOutcome' = [NoManagerOutcome EXCEPT !.op = "openChannel",
                                !.subscriber = subscriber, !.error = r.error]
  /\ UNCHANGED <<nodeVars, channelVars, managerRetired>>

ManagerOpenChannel ==
  \E chainId \in ChainInputs, subscriber \in Subscribers, asset \in AssetInputs,
     amount \in ManagerAmounts, signature \in ManagerSignatures :
    ManagerOpenChannelWith(chainId, subscriber, asset, amount, signature)

\* manager.updateChannel(subscriber, amount, signature).
ManagerUpdateChannel ==
  \E subscriber \in Subscribers, amount \in ManagerAmounts, signature \in ManagerSignatures :
    /\ managerChannels[subscriber].open.iteration < MaxIteration
    /\ LET r == managerUpdateChannel(managerChannels, managerRetired, subscriber,
                                     amount, signature, wallClock)
       IN /\ managerChannels' = r.channels
          /\ managerOutcome' = [NoManagerOutcome EXCEPT !.op = "updateChannel",
                                  !.subscriber = subscriber, !.error = r.error]
    /\ UNCHANGED <<nodeVars, channelVars, managerRetired, managerSent>>

\* manager.closeChannel(subscriber).
ManagerCloseChannel ==
  \E subscriber \in Subscribers :
    /\ Len(managerChannels[subscriber].closed) < MaxClosed
    /\ LET r == closeChannel(managerChannels, subscriber, wallClock)
       IN /\ managerChannels' = r.channels
          /\ managerOutcome' = [NoManagerOutcome EXCEPT !.op = "closeChannel",
                                  !.subscriber = subscriber, !.error = r.error]
    /\ UNCHANGED <<nodeVars, channelVars, managerRetired, managerSent>>

\* manager.groomChannels(closeAll).
ManagerGroomChannelsWith(closeAll) ==
  /\ \A subscriber \in Subscribers : Len(managerChannels[subscriber].closed) < MaxClosed
  /\ LET r == groomChannels(Keys(managerChannels), managerChannels, closeAll, wallClock)
     IN /\ managerChannels' = r.channels
        /\ managerOutcome' = [NoManagerOutcome EXCEPT !.op = "groomChannels",
                                !.closeAll = closeAll, !.error = r.error]
  /\ UNCHANGED <<nodeVars, channelVars, managerRetired, managerSent>>

ManagerGroomChannels == \E closeAll \in BOOLEAN : ManagerGroomChannelsWith(closeAll)

\* manager.retire(), lines 263..265.
ManagerRetire ==
  /\ managerRetired' = TRUE
  /\ managerOutcome' = [NoManagerOutcome EXCEPT !.op = "retire"]
  /\ UNCHANGED <<nodeVars, channelVars, managerChannels, managerSent>>

NextChannelManager ==
  \/ ClockTick
  \/ ManagerOpenChannel
  \/ ManagerUpdateChannel
  \/ ManagerCloseChannel
  \/ ManagerGroomChannels
  \/ ManagerRetire

SpecChannelManager == InitChannelManager /\ [][NextChannelManager]_vars

(***************************************************************************)
(* Properties                                                              *)
(***************************************************************************)

InOpen(id) == id \in Range(openList)
InClosed(id) == id \in Range(closedList)

\* insertChannel ran to its end for id without throwing.
Inserted(id) ==
  \E p \in Procs : /\ ret[p].op = "openChannel" /\ ret[p].id = id
                   /\ pc[p] = "done" /\ ret[p].rejected = "none"

\* The calls of updateChannel for id that returned.
UpdatesReturned(id) ==
  {p \in Procs : ret[p].op = "updateChannel" /\ ret[p].status = "returned" /\ ret[p].id = id}

\* The step is the one in which p's ChannelCache.updateChannel ends.
UpdateEnds(p) == pc[p] = "update_record" /\ pc'[p] = "done"

\* The channels a sweep handed to the cache although their claim failed.
SweepFailed(p) ==
  IF call[p].op = "redeemChannels"
       /\ pc[p] \in {"close_open_set", "close_closed_get", "close_closed_set"}
    THEN Range(loc[p].ids) \ loc[p].accepted
    ELSE {}

\* C1: in every reachable state, between the store reads and writes of
\* concurrent calls included, no id is in both the open and the closed list.
C1_OpenClosedDisjoint == \A id \in Ids : ~(InOpen(id) /\ InClosed(id))

\* C2: an id created by a successful insert is from then on in exactly one of
\* the open and closed lists, never in neither.
C2_InsertedInExactlyOneList == \A id \in Ids : Inserted(id) => (InOpen(id) # InClosed(id))

\* C3: when updates of one open channel run concurrently and all have
\* returned, the stored iteration is the iteration set at insert plus the
\* number of updates that returned: no update is lost.  Stated for the runs
\* in which the id was opened once and every other call is an updateChannel.
C3_NoLostUpdate ==
  \A id \in Ids :
    ( /\ \A p \in Procs : pc[p] = "done"
      /\ Inserted(id)
      /\ Cardinality({p \in Procs : ret[p].op = "openChannel"}) = 1
      /\ \A p \in Procs : ret[p].op \in {"openChannel", "updateChannel"} )
    => channels[id].iteration = 1 + Cardinality(UpdatesReturned(id))

\* C4: no two openChannel calls return the same id.
C4_OpenedIdsDistinct ==
  \A p, q \in Procs :
    ( /\ p # q
      /\ ret[p].op = "openChannel" /\ ret[p].status = "returned"
      /\ ret[q].op = "openChannel" /\ ret[q].status = "returned" )
    => ret[p].id # ret[q].id

\* C5: an updateChannel whose amount is below the amount of the channel it
\* looked up fails before any mutation: it never gets to the cache's update.
C5_AmountRegressionFails ==
  \A p \in Procs :
    (call[p].op = "updateChannel" /\ pc[p] = "update_record")
    => call[p].amount >= loc[p].channel.amount

\* C6: no updateChannel call, alone or interleaved with others, lowers the
\* stored amount of a channel from one state to the next.
C6_AmountNeverDecreases ==
  [][\A p \in Procs :
       UpdateEnds(p) => channels'[call[p].id].amount >= channels[call[p].id].amount]_vars

\* C7: an update that returns raises the stored iteration by exactly 1 and
\* stores the amount, expiry and signature supplied and the current time; an
\* update that throws leaves the record as it was.
C7_UpdateIncrementsIteration ==
  [][\A p \in Procs :
       UpdateEnds(p) =>
         LET old == channels[call[p].id]
             new == channels'[call[p].id]
         IN IF ret'[p].status = "returned"
              THEN /\ new.iteration = old.iteration + 1
                   /\ new.amount = call[p].amount
                   /\ new.expiry = call[p].expiry
                   /\ new.signature = call[p].signature
                   /\ new.timestamp = now
              ELSE new = old]_vars

\* C8: a channel that was inserted and has reached the closed list (and left
\* the open list) is not put back into the open list by any step.
C8_ClosedStaysClosed ==
  [][\A id \in Ids :
       (Inserted(id) /\ InClosed(id) /\ ~InOpen(id))
       => ~(id \in Range(openList'))]_vars

\* C9: a channel whose claim failed on every endpoint is left by the sweep
\* where it was: in the open list, out of the closed list, record unchanged.
C9_FailedRedemptionStaysOpen ==
  [][\A p \in Procs : \A id \in SweepFailed(p) :
       pc'[p] # pc[p] =>
         /\ InOpen(id) => id \in Range(openList')
         /\ ~InClosed(id) => ~(id \in Range(closedList'))
         /\ channels'[id] = channels[id]]_vars

\* C10: redeemChannels returns the number of channels whose claim the ledger
\* accepted in this sweep, not the number it selected.
C10_RedeemCountsAccepted ==
  \A p \in Procs :
    (ret[p].op = "redeemChannels" /\ ret[p].status = "returned")
    => ret[p].count = Cardinality(ret[p].accepted)

\* The step is one of call p: its position changes.
StepOf(p) == pc'[p] # pc[p]

\* C11: a sweep redeems and closes a channel only in the state it had when the
\* sweep took its snapshot: when a claim of the sweep is accepted, and when the
\* sweep takes its channels out of the open list, the stored record of each is
\* still the record the sweep read, so a channel updated since is left alone.
C11_SweepSkipsUpdated ==
  [][\A p \in Procs :
       /\ (pc[p] = "claim" /\ loc'[p].accepted # loc[p].accepted)
            => channels[loc[p].closing[loc[p].i].id] = loc[p].closing[loc[p].i]
       /\ (call[p].op = "redeemChannels" /\ pc[p] = "close_open_set" /\ StepOf(p))
            => \A j \in 1..Len(loc[p].closing) :
                 channels[loc[p].closing[j].id] = loc[p].closing[j]]_vars

\* The step starts call p.
Starts(p) == pc[p] = "idle" /\ pc'[p] # "idle"

\* The step leaves the records and both membership lists as they are.
IndexUnchanged == channels' = channels /\ openList' = openList /\ closedList' = closedList

\* The inputs with which an openChannel call gets past the chain and asset checks.
ChainsPassing == {chainId \in ChainInputs : isChainSupported(chainId)}
AssetsPassing(chainId) == {asset \in AssetInputs : isAssetSupported(chainId, asset)}

\* C12: wherever a call starts while the node is not retired, the checks of
\* openChannel answer InsufficientExpiry for every call with a chain and an asset that pass and
\* an expiry less than the tolerance away; and the call that throws it is over
\* at once, nothing of it is left running, and it wrote no record and no list
\* entry.
C12_InsufficientExpiryFails ==
  [][/\ (~isRetired /\ \E p \in Procs : Starts(p)) =>
          \A chainId \in ChainsPassing :
            \A asset \in AssetsPassing(chainId), member \in MemberAnswers,
               expiry \in {e \in ExpiryInputs : e - now < expiryTolerance} :
              openChannelChecks(chainId, member, asset, expiry) = "InsufficientExpiry"
     /\ \A p \in Procs :
          (StepOf(p) /\ ret'[p].op = "openChannel" /\ ret'[p].error = "InsufficientExpiry")
          => /\ Starts(p)
             /\ ret'[p] = Threw("openChannel", "InsufficientExpiry")
             /\ pc'[p] = "done"
             /\ IndexUnchanged]_vars

\* An openChannel call threw InsufficientExpiry.
C12_Witness ==
  \E p \in Procs : ret[p].op = "openChannel" /\ ret[p].error = "InsufficientExpiry"

\* C13: an openChannel call that is past the retired, chain, asset and expiry
\* checks, for an address of which the ledger does not say it is a
\* subscriber, throws NotSubscriber and writes no record and no list entry.
C13_NotSubscriberFails ==
  [][\A p \in Procs :
       (Starts(p) /\ ~isRetired) =>
         \A chainId \in ChainsPassing :
           \A asset \in AssetsPassing(chainId) :
             \A expiry \in {e \in ExpiryInputs : e - now >= expiryTolerance} :
               \A id \in Ids, member \in MemberAnswers \ {"true"}, amount \in Amounts :
                 OpenChannelWith(p, id, chainId, member, asset, amount, expiry)
                 => /\ ret'[p] = Threw("openChannel", "NotSubscriber")
                    /\ pc'[p] = "done"
                    /\ IndexUnchanged]_vars

OperationOf(p) ==
  IF call[p].op # "none" THEN call[p].op
  ELSE IF call'[p].op # "none" THEN call'[p].op
  ELSE ret'[p].op

\* C15: no step of an openChannel or updateChannel call, the step that ends
\* it in an error included, submits a state-changing transaction.
C15_ValidationSendsNothing ==
  [][\A p \in Procs :
       (StepOf(p) /\ OperationOf(p) \in {"openChannel", "updateChannel"})
       => sent' = sent]_vars

\* C16: the retired flag, once set, stays set, a further retire() changes
\* nothing else either, and every openChannel or updateChannel call started
\* while it is set throws Retired at once without writing a record or a list
\* entry.
C16_RetireIsFinal ==
  [][/\ isRetired => isRetired'
     /\ \A p \in Procs :
          (isRetired /\ Starts(p)) =>
            /\ OperationOf(p) \in {"openChannel", "updateChannel"}
                 => /\ ret'[p] = Threw(OperationOf(p), "Retired")
                    /\ pc'[p] = "done"
                    /\ IndexUnchanged /\ sent' = sent
            /\ OperationOf(p) = "retire"
                 => /\ IndexUnchanged
                    /\ <<now, redeemed, sent>>' = <<now, redeemed, sent>>]_vars

\* After retire(), a second retire() returned and an openChannel call threw
\* Retired.
C16_Witness ==
  /\ isRetired
  /\ Cardinality({p \in Procs : ret[p].op = "retire"}) >= 2
  /\ \E p \in Procs : ret[p] = Threw("openChannel", "Retired")

\* C17: every id in the open list or in the closed list has a record; closing
\* an id that was never inserted puts it in neither list.
C17_ListedIdsHaveRecords ==
  \A id \in Ids : (InOpen(id) \/ InClosed(id)) => channels[id] # NoChannel

\* C18: an insertChannel called for an id that has a record reads that record,
\* and an insertChannel that read a record rejects with AlreadyExists and is
\* over, leaving every record and both lists as they are.
C18_InsertExistingFails ==
  [][\A p \in Procs :
       /\ (pc[p] = "estimateGas" /\ pc'[p] = "insert_record"
              /\ channels[call[p].id] # NoChannel)
            => loc'[p].cached = channels[call[p].id]
       /\ (pc[p] = "insert_record" /\ StepOf(p) /\ loc[p].cached # NoChannel)
            => /\ ret'[p].rejected = "AlreadyExists"
               /\ pc'[p] = "done"
               /\ IndexUnchanged]_vars

\* An insertChannel for the id of a closed channel rejected with AlreadyExists.
C18_Witness ==
  \E p \in Procs :
    /\ ret[p].rejected = "AlreadyExists"
    /\ InClosed(ret[p].id) /\ ~InOpen(ret[p].id)
    /\ channels[ret[p].id] # NoChannel

\* C19: when an insertChannel that found no record ends, the stored record of
\* its id has iteration 1 and the amount, expiry and signature supplied, and
\* the id is in the open list and not in the closed list.
C19_InsertPostcondition ==
  [][\A p \in Procs :
       (pc[p] = "insert_list_set" /\ pc'[p] = "done") =>
         /\ channels'[call[p].id].iteration = 1
         /\ channels'[call[p].id].amount = call[p].amount
         /\ channels'[call[p].id].expiry = call[p].expiry
         /\ channels'[call[p].id].signature = call[p].signature
         /\ call[p].id \in Range(openList')
         /\ ~(call[p].id \in Range(closedList'))]_vars

\* C20: a cache update of an id that has a record and is not in the open list
\* fails with NotOpen and leaves the stored record as it is.
C20_UpdateNotOpenFails ==
  [][\A p \in Procs :
       (UpdateEnds(p) /\ loc[p].cached # NoChannel /\ ~InOpen(call[p].id))
       => /\ ret'[p] = Threw("updateChannel", "NotOpen")
          /\ channels' = channels]_vars

\* C21: ChannelCache.closeChannels adds to the closed list no id that was
\* absent from the open list; stated for the ids of the call that have no
\* record, which have never been in the open list: when the call ends none
\* of them is in the closed list.
C21_CloseManyPerId ==
  [][\A p \in Procs :
       (call[p].op = "closeChannels" /\ pc[p] = "close_closed_set" /\ StepOf(p))
       => \A j \in 1..Len(loc[p].ids) :
            channels[loc[p].ids[j]] = NoChannel
            => ~(loc[p].ids[j] \in Range(closedList'))]_vars

\* Call p is waiting for an endpoint's answer to a fee estimation or a claim.
LedgerCall(p) == pc[p] \in {"estimateGas", "claim"}

\* The step ends the ledger call p was in: p moves on, or to its next claim.
LedgerCallEnds(p) == LedgerCall(p) /\ (pc'[p] # pc[p] \/ loc'[p].i # loc[p].i)

\* The claim p is waiting for is of this id.
ClaimedId(p) == loc[p].closing[loc[p].i].id

C24_SweepSkipsClosed ==
  [][\A p \in Procs :
       /\ (call[p].op = "redeemChannels" /\ pc'[p] = "claim"
              /\ (pc[p] # "claim" \/ loc'[p].i # loc[p].i))
            => ~(InClosed(loc'[p].closing[loc'[p].i].id)
                   /\ ~InOpen(loc'[p].closing[loc'[p].i].id))
       /\ (call[p].op = "redeemChannels" /\ pc[p] # "close_open_set"
              /\ pc'[p] = "close_open_set")
            => ret'[p].count <=
                 Cardinality({id \in Range(loc'[p].ids) : ~(InClosed(id) /\ ~InOpen(id))})]_vars

\* C25: when two openChannel calls for different ids have both run their
\* insertChannel to its end and no other call was made, both ids are in the
\* open list.
C25_NoLostListUpdate ==
  ( /\ \A p \in Procs : pc[p] \in {"idle", "done"}
    /\ \A p \in Procs : ret[p].op \in {"none", "openChannel"}
    /\ \A id \in Ids : Inserted(id) )
  => \A id \in Ids : InOpen(id)

\* C26: an update called on a channel that is closed, or whose expiry the
\* clock has passed, throws "Session is closed." and leaves iteration, amount,
\* signature and expiry as they were; and an update that returns was called
\* on a channel that was open.
C26_UpdateOnlyWhileOpen ==
  [][\A amount \in Amounts, signature \in Signatures :
       Update(amount, signature)
       => /\ (session.status = CLOSED \/ wallClock > session.expiry)
               => /\ outcome'.error = "Session is closed."
                  /\ session' = session
          /\ outcome'.error = "none"
               => session.status = OPEN /\ wallClock <= session.expiry]_vars

\* An update has been refused on a channel whose flag is OPEN and whose
\* expiry has lapsed, and nothing of the channel has changed.
C26_Witness ==
  /\ outcome.op = "update" /\ outcome.error = "Session is closed."
  /\ session.status = OPEN /\ wallClock > session.expiry
  /\ session.iteration = 0 /\ session.signature = "undefined"

\* C27: a constructor call with a ttl of at least MIN_TTL returns a channel
\* whose status is OPEN, for which isOpen() is true right afterwards, and
\* whose expiry is the time of construction plus the ttl.
C27_ConstructedOpen ==
  [][\A ttl \in TTLInputs :
       (New(ttl) /\ ttl >= MIN_TTL)
       => /\ outcome'.error = "none"
          /\ session'.status = OPEN
          /\ isOpen(session', wallClock')
          /\ session'.expiry = wallClock + ttl]_vars

\* C28: a constructor call with a ttl below MIN_TTL throws the error about
\* the expiry period and leaves no channel; a ttl equal to MIN_TTL does not
\* get that error.
C28_ShortTTLRejected ==
  [][\A ttl \in TTLInputs :
       New(ttl)
       => /\ ttl < MIN_TTL => outcome'.error = TTLError /\ session' = NoSession
          /\ ttl = MIN_TTL => outcome'.error # TTLError]_vars

\* The constructor has rejected a ttl one second short of the minimum.
C28_Witness ==
  /\ outcome.op = "new" /\ outcome.arg = MIN_TTL - 1 /\ outcome.error = TTLError
  /\ session = NoSession

\* C29: close() leaves the status CLOSED, and from a closed channel every
\* step, a second close() included, leaves it CLOSED with the rest of the
\* state untouched: isOpen() answers false and update throws.
C29_CloseIsOneWay ==
  [][/\ (Close /\ session.status = OPEN) => session'.status = CLOSED
     /\ session.status = CLOSED
          => /\ session' = session
             /\ ~isOpen(session', wallClock')
             /\ outcome'.op = "isOpen" => outcome'.value = FALSE
             /\ outcome'.op = "update" => outcome'.error = "Session is closed."]_vars

\* After close() an update was attempted and refused.
C29_Witness ==
  /\ session.status = CLOSED
  /\ outcome.op = "update" /\ outcome.error = "Session is closed."

\* C30: isOpen() changes nothing of the channel, and on a channel whose flag
\* is OPEN and whose expiry has lapsed it answers false.
C30_IsOpenReadOnly ==
  [][IsOpen
       => /\ session' = session /\ TTL' = TTL
          /\ (session.status = OPEN /\ wallClock > session.expiry)
               => (outcome'.value = FALSE /\ session'.status = OPEN)
          /\ (session.status = OPEN /\ wallClock <= session.expiry)
               => outcome'.value = TRUE]_vars

\* isOpen() has answered false on a channel whose flag is still OPEN.
C30_Witness ==
  /\ outcome.op = "isOpen" /\ outcome.value = FALSE
  /\ session.status = OPEN /\ wallClock > session.expiry

\* C32: openChannel does not return an id when the insertChannel it started
\* was rejected and so stored no record.
C32_InsertFailureSurfaced ==
  \A p \in Procs :
    (ret[p].op = "openChannel" /\ ret[p].status = "returned")
    => ret[p].rejected \in {"pending", "none"}

\* C33: a channel is not dropped without redemption: as long as the cache's
\* closeChannels is called by sweeps only, a channel that has left the open
\* list for the closed list is one whose claim the ledger accepted.
C33_FailedClaimIsRetried ==
  (\A p \in Procs : call[p].op # "closeChannels" /\ ret[p].op # "closeChannels")
  => \A id \in Ids : (InClosed(id) /\ ~InOpen(id)) => id \in redeemed

\* ChannelHeader of a stored record.
Header(c) ==
  [id |-> c.id, chainId |-> c.chainId, sender |-> c.sender, receiver |-> c.receiver,
   asset |-> c.asset]

C35_NoSecondClaim ==
  [][\A p \in Procs :
       (call[p].op = "redeemChannels" /\ pc'[p] = "claim"
          /\ (pc[p] # "claim" \/ loc'[p].i # loc[p].i))
       => ~(loc'[p].closing[loc'[p].i].id \in redeemed')]_vars

\* C36: when a sweep has put its channels into the closed list, the record of
\* each channel whose claim was accepted holds the amount, expiry and
\* signature that were submitted in the claim, and the record of a channel
\* that is redeemed and closed does not change any more.
C36_ClosedRecordIsRedeemedState ==
  [][/\ \A p \in Procs :
          (call[p].op = "redeemChannels" /\ pc[p] = "close_closed_set" /\ StepOf(p))
          => \A j \in 1..Len(loc[p].closing) :
               loc[p].closing[j].id \in loc[p].accepted
               => /\ channels'[loc[p].closing[j].id].amount = loc[p].closing[j].amount
                  /\ channels'[loc[p].closing[j].id].expiry = loc[p].closing[j].expiry
                  /\ channels'[loc[p].closing[j].id].signature = loc[p].closing[j].signature
     /\ \A id \in Ids :
          (id \in redeemed /\ InClosed(id) /\ ~InOpen(id))
          => channels'[id] = channels[id]]_vars

\* No element of the array occurs in it twice.
NoDuplicates(list) == \A i, j \in 1..Len(list) : list[i] = list[j] => i = j

\* C40: neither membership list holds the same id twice.
C40_ListsHaveNoDuplicates == NoDuplicates(openList) /\ NoDuplicates(closedList)

\* closeChannels called with a repeated id, for an id that an earlier call has
\* closed already, is about to commit the closed list.
C40_Witness ==
  \E p \in Procs : \E id \in Ids :
    /\ call[p].op = "closeChannels" /\ call[p].ids = <<id, id>>
    /\ pc[p] = "close_closed_set"
    /\ InClosed(id)

\* C39: once isOpen() is false for a channel, because it was closed or
\* because the clock has passed its expiry, it is false after every later
\* step: no update, close or isOpen call and no passing of time makes it true
\* again, and an isOpen call made then answers false.
C39_LapseIsAbsorbing ==
  [][(session # NoSession /\ ~isOpen(session, wallClock))
       => /\ ~isOpen(session', wallClock')
          /\ IsOpen => outcome'.value = FALSE
          /\ session'.expiry = session.expiry]_vars

\* A channel whose expiry one update has pushed forward has lapsed without
\* being closed, and an update called after the lapse was refused.
C39_Witness ==
  /\ session.status = OPEN /\ session.iteration = 1
  /\ session.expiry > TTL /\ wallClock > session.expiry
  /\ outcome.op = "update" /\ outcome.error = "Session is closed."

\* The subscriber's open channel, closed, has become the last of the
\* subscriber's closed channels, and the subscriber has no open channel.
MovedToClosed(subscriber) ==
  /\ managerChannels'[subscriber].open = NoSession
  /\ managerChannels'[subscriber].closed =
       Append(managerChannels[subscriber].closed, close(managerChannels[subscriber].open))

C38_FirstOpenSucceeds ==
  [][\A chainId \in ChainInputs, subscriber \in Subscribers, asset \in AssetInputs,
        amount \in ManagerAmounts, signature \in ManagerSignatures :
       ( /\ ManagerOpenChannelWith(chainId, subscriber, asset, amount, signature)
         /\ managerChannels[subscriber] = NoEntry
         /\ managerOpenChecks(managerRetired, chainId, asset) = "none"
         /\ construct(ManagerTTL, wallClock).error = "none" )
       => /\ managerOutcome'.error = "none"
          /\ managerChannels'[subscriber].open.status = OPEN
          /\ managerChannels'[subscriber].closed = <<>>]_vars

====
